---- MODULE Spec2Model ----
(***************************************************************************)
(* The read endpoint of the cross-region DR project: read_function.py.     *)
(* lambda_handler scans the DynamoDB table HighAvailabilityTable through   *)
(* the boto3 resource API and returns an API-Gateway style envelope.       *)
(*                                                                         *)
(* Text (JSON bodies, messages, attribute names) is modelled as a sequence *)
(* of one-character strings, so that json.dumps is a real conversion and   *)
(* its output can be parsed back.                                          *)
(***************************************************************************)
EXTENDS Integers, Sequences, FiniteSets, TLC

(* Largest number of rows of the table. *)
MaxRows == 2

-----------------------------------------------------------------------------
(* Python values as boto3's resource layer hands them to the handler.      *)
(* Every value carries all fields, the unused ones at a default:           *)
(*   t = "S"    str          (s)                                           *)
(*   t = "N"    Decimal      (n)  -- DynamoDB numbers deserialise to       *)
(*                                   decimal.Decimal, never int or float   *)
(*   t = "BOOL" bool         (b)                                           *)
(*   t = "NULL" None                                                       *)
(*   t = "L"    list         (items)                                       *)
(*   t = "M"    dict         (keys, items; insertion order)                *)

Str(s) == [t |-> "S", s |-> s, n |-> 0, b |-> FALSE, items |-> <<>>, keys |-> <<>>]
Num(n) == [t |-> "N", s |-> <<>>, n |-> n, b |-> FALSE, items |-> <<>>, keys |-> <<>>]
Bool(b) == [t |-> "BOOL", s |-> <<>>, n |-> 0, b |-> b, items |-> <<>>, keys |-> <<>>]
Null == [t |-> "NULL", s |-> <<>>, n |-> 0, b |-> FALSE, items |-> <<>>, keys |-> <<>>]
List(items) == [t |-> "L", s |-> <<>>, n |-> 0, b |-> FALSE, items |-> items, keys |-> <<>>]
Map(keys, items) == [t |-> "M", s |-> <<>>, n |-> 0, b |-> FALSE, items |-> items, keys |-> keys]

-----------------------------------------------------------------------------
(* json.dumps with its default arguments (read_function.py lines 18, 27).  *)

(* The encoder has no case for decimal.Decimal: it raises TypeError as     *)
(* soon as one occurs anywhere in the value.                               *)
RECURSIVE Serializable(_)
Serializable(v) ==
    CASE v.t = "N" -> FALSE
      [] v.t \in {"L", "M"} -> \A i \in 1..Len(v.items) : Serializable(v.items[i])
      [] OTHER -> TRUE

(* A faulty variant of EscapeChar: text pasted between quotes unescaped. *)
EscapeCharRaw(c) == <<c>>

(* One character of a string literal, as ensure_ascii escaping writes it. *)
EscapeChar(c) ==
    CASE c = "\"" -> <<"\\", "\"">>
      [] c = "\\" -> <<"\\", "\\">>
      [] c = "\n" -> <<"\\", "n">>
      [] OTHER -> <<c>>

(* The escaped text of s, the pieces joined half by half. *)
RECURSIVE EscapeString(_)
EscapeString(s) ==
    IF Len(s) = 0 THEN <<>>
    ELSE IF Len(s) = 1 THEN EscapeChar(s[1])
    ELSE LET h == Len(s) \div 2
         IN  EscapeString(SubSeq(s, 1, h)) \o EscapeString(SubSeq(s, h + 1, Len(s)))

EncodeString(s) == <<"\"">> \o EscapeString(s) \o <<"\"">>

RECURSIVE Encode(_), EncodeElements(_, _), EncodeMembers(_, _, _)

(* Elements i.. of a list, joined by the item separator ", ". *)
EncodeElements(items, i) ==
    IF i > Len(items) THEN <<>>
    ELSE (IF i > 1 THEN <<",", " ">> ELSE <<>>)
         \o Encode(items[i]) \o EncodeElements(items, i + 1)

(* Members i.. of a dict, key separator ": ", item separator ", ". *)
EncodeMembers(keys, items, i) ==
    IF i > Len(keys) THEN <<>>
    ELSE (IF i > 1 THEN <<",", " ">> ELSE <<>>)
         \o EncodeString(keys[i]) \o <<":", " ">> \o Encode(items[i])
         \o EncodeMembers(keys, items, i + 1)

(* The text of a serialisable value. *)
Encode(v) ==
    CASE v.t = "S" -> EncodeString(v.s)
      [] v.t = "BOOL" -> IF v.b THEN <<"t", "r", "u", "e">> ELSE <<"f", "a", "l", "s", "e">>
      [] v.t = "NULL" -> <<"n", "u", "l", "l">>
      [] v.t = "L" -> <<"[">> \o EncodeElements(v.items, 1) \o <<"]">>
      [] v.t = "M" -> <<"{">> \o EncodeMembers(v.keys, v.items, 1) \o <<"}">>

(* str(e) of the TypeError json.dumps raises on a Decimal. *)
DecimalMessage ==
    <<"O", "b", "j", "e", "c", "t", " ", "o", "f", " ", "t", "y", "p", "e", " ",
      "D", "e", "c", "i", "m", "a", "l", " ", "i", "s", " ", "n", "o", "t", " ",
      "J", "S", "O", "N", " ", "s", "e", "r", "i", "a", "l", "i", "z", "a", "b", "l", "e">>

(* json.dumps(v): the text, or the exception it raises. *)
json_dumps(v) ==
    IF Serializable(v)
    THEN [raised |-> FALSE, text |-> Encode(v), exc |-> [kind |-> "None", msg |-> <<>>]]
    ELSE [raised |-> TRUE, text |-> <<>>, exc |-> [kind |-> "TypeError", msg |-> DecimalMessage]]

-----------------------------------------------------------------------------
(* A JSON reader (RFC 8259 restricted to the escapes above), used to state *)
(* what a returned body means.  A result is [ok, v, next]: next is the     *)
(* position after the value read.                                          *)

ParseFail == [ok |-> FALSE, v |-> Null, next |-> 0]

RECURSIVE SkipWs(_, _)
SkipWs(s, i) == IF i <= Len(s) /\ s[i] = " " THEN SkipWs(s, i + 1) ELSE i

Digits == <<"0", "1", "2", "3", "4", "5", "6", "7", "8", "9">>
IsDigit(c) == \E d \in 1..10 : Digits[d] = c
DigitValue(c) == (CHOOSE d \in 1..10 : Digits[d] = c) - 1

(* The number of backslashes that stand immediately before position j,   *)
(* looking no further back than position lo.                               *)
RECURSIVE BackslashRun(_, _, _)
BackslashRun(s, lo, j) ==
    IF j - 1 >= lo /\ s[j - 1] = "\\" THEN 1 + BackslashRun(s, lo, j - 1) ELSE 0

(* Is the character at j the second character of an escape sequence? *)
Escaped(s, lo, j) == BackslashRun(s, lo, j) % 2 = 1

(* A string literal at position i: the text runs from i + 1 to the first   *)
(* quote that is not escaped; a backslash escapes a quote, a backslash or  *)
(* n, and a raw newline is not allowed.                                    *)
ParseString(s, i) ==
    IF i > Len(s) \/ s[i] # "\"" THEN ParseFail
    ELSE LET lo == i + 1
             quotes == {j \in lo..Len(s) : s[j] = "\"" /\ ~Escaped(s, lo, j)}
         IN  IF quotes = {} THEN ParseFail
             ELSE LET close == CHOOSE j \in quotes : \A m \in quotes : j <= m
                      wellFormed ==
                          \A j \in lo..(close - 1) :
                              IF Escaped(s, lo, j) THEN s[j] \in {"\"", "\\", "n"}
                              ELSE s[j] # "\n"
                      marked == [k \in 1..(close - lo) |->
                                   LET j == lo + k - 1
                                   IN  [c |-> IF Escaped(s, lo, j) /\ s[j] = "n" THEN "\n" ELSE s[j],
                                        keep |-> Escaped(s, lo, j) \/ s[j] # "\\"]]
                      Keep(m) == m.keep
                      kept == SelectSeq(marked, Keep)
                  IN  IF ~wellFormed THEN ParseFail
                      ELSE [ok |-> TRUE,
                            v |-> Str([k \in 1..Len(kept) |-> kept[k].c]),
                            next |-> close + 1]

RECURSIVE ParseDigits(_, _, _)
ParseDigits(s, i, acc) ==
    IF i <= Len(s) /\ IsDigit(s[i])
    THEN ParseDigits(s, i + 1, 10 * acc + DigitValue(s[i]))
    ELSE [ok |-> TRUE, v |-> Num(acc), next |-> i]

(* Does the word w stand at position i of s? *)
HasWord(s, i, w) ==
    /\ i + Len(w) - 1 <= Len(s)
    /\ \A k \in 1..Len(w) : s[i + k - 1] = w[k]

RECURSIVE ParseValue(_, _), ParseElements(_, _, _), ParseMembers(_, _, _, _)

(* The elements of an array from position i (a value is expected there). *)
ParseElements(s, i, acc) ==
    LET r == ParseValue(s, i)
        j == SkipWs(s, r.next)
    IN  IF ~r.ok \/ j > Len(s) THEN ParseFail
        ELSE IF s[j] = "]" THEN [ok |-> TRUE, v |-> List(Append(acc, r.v)), next |-> j + 1]
        ELSE IF s[j] = "," THEN ParseElements(s, SkipWs(s, j + 1), Append(acc, r.v))
        ELSE ParseFail

(* The members of an object from position i (a key is expected there). *)
ParseMembers(s, i, keys, items) ==
    LET k == ParseString(s, i)
        c == SkipWs(s, k.next)
    IN  IF ~k.ok \/ c > Len(s) \/ s[c] # ":" THEN ParseFail
        ELSE LET r == ParseValue(s, SkipWs(s, c + 1))
                 j == SkipWs(s, r.next)
             IN  IF ~r.ok \/ j > Len(s) THEN ParseFail
                 ELSE IF s[j] = "}"
                      THEN [ok |-> TRUE,
                            v |-> Map(Append(keys, k.v.s), Append(items, r.v)),
                            next |-> j + 1]
                 ELSE IF s[j] = ","
                      THEN ParseMembers(s, SkipWs(s, j + 1),
                                        Append(keys, k.v.s), Append(items, r.v))
                 ELSE ParseFail

ParseValue(s, i) ==
    IF i > Len(s) THEN ParseFail
    ELSE IF s[i] = "\"" THEN ParseString(s, i)
    ELSE IF IsDigit(s[i]) THEN ParseDigits(s, i, 0)
    ELSE IF HasWord(s, i, <<"t", "r", "u", "e">>)
         THEN [ok |-> TRUE, v |-> Bool(TRUE), next |-> i + 4]
    ELSE IF HasWord(s, i, <<"f", "a", "l", "s", "e">>)
         THEN [ok |-> TRUE, v |-> Bool(FALSE), next |-> i + 5]
    ELSE IF HasWord(s, i, <<"n", "u", "l", "l">>)
         THEN [ok |-> TRUE, v |-> Null, next |-> i + 4]
    ELSE IF s[i] = "["
         THEN LET j == SkipWs(s, i + 1)
              IN  IF j <= Len(s) /\ s[j] = "]"
                  THEN [ok |-> TRUE, v |-> List(<<>>), next |-> j + 1]
                  ELSE ParseElements(s, j, <<>>)
    ELSE IF s[i] = "{"
         THEN LET j == SkipWs(s, i + 1)
              IN  IF j <= Len(s) /\ s[j] = "}"
                  THEN [ok |-> TRUE, v |-> Map(<<>>, <<>>), next |-> j + 1]
                  ELSE ParseMembers(s, j, <<>>, <<>>)
    ELSE ParseFail

(* The whole text s as one JSON value. *)
json_loads(s) ==
    LET r == ParseValue(s, SkipWs(s, 1))
    IN  IF r.ok /\ SkipWs(s, r.next) = Len(s) + 1 THEN r ELSE ParseFail

-----------------------------------------------------------------------------
(* The backing store and the triggers.                                     *)

(* Items the table may hold: each documented value type occurs, a string   *)
(* that needs escaping and a nested mapping included.                      *)
RecS == Map(<< <<"i", "d">> >>, << Str(<<"a", "\"", "\\">>) >>)
RecN == Map(<< <<"i", "d">> >>, << Num(7) >>)
RecB == Map(<< <<"o", "k">>, <<"x">> >>, << Bool(TRUE), Null >>)
RecL == Map(<< <<"l">> >>, << List(<< Str(<<"b">>), Map(<< <<"m">> >>, << Bool(FALSE) >>) >>) >>)
RecordPool == << RecS, RecN, RecB, RecL >>

(* The tables of at most MaxRows rows, in the order a scan yields them. *)
Tables ==
    UNION { { [i \in 1..n |-> RecordPool[idx[i]]] : idx \in [1..n -> 1..Len(RecordPool)] }
            : n \in 0..MaxRows }

(* Exceptions a scan request raises (botocore), with str(e) shortened. *)
NoExc == [kind |-> "None", msg |-> <<>>]
Failures ==
    { [kind |-> "ClientError", msg |-> <<"d", "e", "n", "i", "e", "d">>],
      [kind |-> "EndpointConnectionError", msg |-> <<"U", "R", "L", ":", " ", "\"", "x", "\"">>] }

(* What the store does to the requests of one invocation: request number   *)
(* `at` raises exc; at = 0 raises nothing.                                 *)
NoFault == [at |-> 0, exc |-> NoExc]
FaultPlans == {NoFault} \cup { [at |-> k, exc |-> e] : k \in 1..MaxRows, e \in Failures }

(* The (event, context) pairs the handler is invoked with. *)
Triggers ==
    { [event |-> "https://a.example", context |-> "req-1"],
      [event |-> "https://b.example", context |-> "req-2"] }

NoResponse == [Items |-> <<>>, LastEvaluatedKey |-> 0]
FixedHeaders ==
    ("Content-Type" :> "application/json") @@ ("Access-Control-Allow-Origin" :> "*")
NoEnvelope == [statusCode |-> 0, headers |-> FixedHeaders, body |-> <<>>]

VARIABLES
    table,      \* rows of HighAvailabilityTable, in scan order
    cuts,       \* row positions after which the store ends a scan page
    pc,         \* position of lambda_handler: idle, scan, items, except, returned, raised
    event,      \* arguments of the running invocation
    context,
    plan,       \* the store's fault plan for the running invocation
    requests,   \* requests issued against the table by the running invocation
    replies,    \* what the store answered to each of them
    response,   \* local `response`
    exc,        \* the exception in flight or handled (`e`)
    envelope,   \* the value returned
    history     \* earlier invocations: first one seen per sequence of replies

vars == <<table, cuts, pc, event, context, plan, requests, replies, response, exc,
          envelope, history>>

(* One scan page: the rows after position start up to the next cut, with   *)
(* LastEvaluatedKey (0: absent) when rows remain after it.                 *)
ScanPage(start) ==
    LET n == Len(table)
        ends == {c \in cuts : c > start} \cup {n}
        stop == CHOOSE c \in ends : \A d \in ends : c <= d
    IN  [Items |-> SubSeq(table, start + 1, stop),
         LastEvaluatedKey |-> IF stop < n THEN stop ELSE 0]

Init ==
    /\ table \in Tables
    /\ cuts \in SUBSET (1..(Len(table) - 1))
    /\ pc = "idle"
    /\ event = ""
    /\ context = ""
    /\ plan = NoFault
    /\ requests = <<>>
    /\ replies = <<>>
    /\ response = NoResponse
    /\ exc = NoExc
    /\ envelope = NoEnvelope
    /\ history = {}

(* The trigger calls lambda_handler(event, context). *)
Invoke ==
    /\ pc = "idle"
    /\ \E tr \in Triggers, p \in FaultPlans :
        /\ event' = tr.event
        /\ context' = tr.context
        /\ plan' = p
    /\ pc' = "scan"
    /\ UNCHANGED <<table, cuts, requests, replies, response, exc, envelope, history>>

(* A faulty variant of Scan: the handler writes to the table it reads. *)
ScanAndDelete ==
    /\ pc = "scan"
    /\ requests' = Append(requests, [op |-> "DeleteItem", ExclusiveStartKey |-> 0])
    /\ replies' = Append(replies, [ok |-> TRUE, Items |-> <<>>, LastEvaluatedKey |-> 0, exc |-> NoExc])
    /\ table' = IF table = <<>> THEN table ELSE Tail(table)
    /\ cuts' = {}
    /\ response' = NoResponse
    /\ pc' = "items"
    /\ UNCHANGED <<event, context, plan, exc, envelope, history>>

(* Line 10: response = table.scan(), with no ExclusiveStartKey. *)
Scan ==
    /\ pc = "scan"
    /\ requests' = Append(requests, [op |-> "Scan", ExclusiveStartKey |-> 0])
    /\ IF plan.at = Len(requests) + 1
       THEN /\ replies' = Append(replies, [ok |-> FALSE, Items |-> <<>>,
                                           LastEvaluatedKey |-> 0, exc |-> plan.exc])
            /\ exc' = plan.exc
            /\ pc' = "except"
            /\ UNCHANGED response
       ELSE /\ replies' = Append(replies, [ok |-> TRUE, Items |-> ScanPage(0).Items,
                                           LastEvaluatedKey |-> ScanPage(0).LastEvaluatedKey,
                                           exc |-> NoExc])
            /\ response' = ScanPage(0)
            /\ pc' = "items"
            /\ UNCHANGED exc
    /\ UNCHANGED <<table, cuts, event, context, plan, envelope, history>>

(* A faulty variant of SuccessEnvelope: the CORS origin echoes the caller's. *)
SuccessEnvelopeEchoOrigin(text) ==
    [statusCode |-> 200,
     headers |-> ("Content-Type" :> "application/json") @@ ("Access-Control-Allow-Origin" :> event),
     body |-> text]

(* Lines 12-19: the envelope of a successful read. *)
SuccessEnvelope(text) ==
    [statusCode |-> 200,
     headers |-> ("Content-Type" :> "application/json") @@ ("Access-Control-Allow-Origin" :> "*"),
     body |-> text]

(* A faulty variant of FailureEnvelope: the failure path forgets the CORS header. *)
FailureEnvelopeNoCors(e) ==
    [statusCode |-> 500,
     headers |-> ("Content-Type" :> "application/json"),
     body |-> json_dumps(Map(<< <<"e", "r", "r", "o", "r">> >>, << Str(e.msg) >>)).text]

(* Lines 21-28: the envelope of a failed read; str(e) is the message. *)
FailureEnvelope(e) ==
    [statusCode |-> 500,
     headers |-> ("Content-Type" :> "application/json") @@ ("Access-Control-Allow-Origin" :> "*"),
     body |-> json_dumps(Map(<< <<"e", "r", "r", "o", "r">> >>, << Str(e.msg) >>)).text]

(* A faulty variant of ReturnSuccess: an empty table answered with 404. *)
ReturnSuccessNotFound ==
    /\ pc = "items"
    /\ LET d == json_dumps(List(response.Items))
       IN  IF d.raised
           THEN /\ exc' = d.exc
                /\ pc' = "except"
                /\ UNCHANGED envelope
           ELSE /\ envelope' = IF response.Items = <<>>
                               THEN [SuccessEnvelope(d.text) EXCEPT !.statusCode = 404]
                               ELSE SuccessEnvelope(d.text)
                /\ pc' = "returned"
                /\ UNCHANGED exc
    /\ UNCHANGED <<table, cuts, event, context, plan, requests, replies, response, history>>

(* Lines 11-19: items = response['Items']; the return statement evaluates  *)
(* json.dumps(items), which raises inside the try block or yields the body.*)
ReturnSuccess ==
    /\ pc = "items"
    /\ LET d == json_dumps(List(response.Items))
       IN  IF d.raised
           THEN /\ exc' = d.exc
                /\ pc' = "except"
                /\ UNCHANGED envelope
           ELSE /\ envelope' = SuccessEnvelope(d.text)
                /\ pc' = "returned"
                /\ UNCHANGED exc
    /\ UNCHANGED <<table, cuts, event, context, plan, requests, replies, response, history>>

(* A faulty variant of Catches: only botocore's ClientError is caught. *)
CatchesClientErrorOnly(kind) == kind = "ClientError"

(* Line 20: `except Exception` catches every exception class modelled. *)
Catches(kind) == kind \in {"ClientError", "EndpointConnectionError", "TypeError"}

(* A faulty variant of Except: a throttled or refused request is tried again. *)
ExceptRetry ==
    /\ pc = "except"
    /\ IF exc.kind = "ClientError" /\ Len(requests) < 2
       THEN /\ pc' = "scan"
            /\ exc' = NoExc
            /\ UNCHANGED envelope
       ELSE /\ envelope' = FailureEnvelope(exc)
            /\ pc' = "returned"
            /\ UNCHANGED exc
    /\ UNCHANGED <<table, cuts, event, context, plan, requests, replies, response, history>>

(* Lines 20-28: the handler's except clause. *)
Except ==
    /\ pc = "except"
    /\ IF Catches(exc.kind)
       THEN /\ envelope' = FailureEnvelope(exc)
            /\ pc' = "returned"
       ELSE /\ pc' = "raised"
            /\ UNCHANGED envelope
    /\ UNCHANGED <<table, cuts, event, context, plan, requests, replies, response, exc, history>>

(* The invocation as the caller saw it. *)
Observed == [event |-> event, context |-> context, replies |-> replies, envelope |-> envelope]

(* The envelope reaches the caller; the locals die with the call frame.    *)
(* The module-level `dynamodb` and `table` handles (lines 5-6) stay.       *)
Complete ==
    /\ pc = "returned"
    /\ history' = IF \E h \in history : h.replies = replies
                  THEN history
                  ELSE history \cup {Observed}
    /\ pc' = "idle"
    /\ event' = ""
    /\ context' = ""
    /\ plan' = NoFault
    /\ requests' = <<>>
    /\ replies' = <<>>
    /\ response' = NoResponse
    /\ exc' = NoExc
    /\ envelope' = NoEnvelope
    /\ UNCHANGED <<table, cuts>>

(* Lines 8-28: one step of the running handler. *)
lambda_handler == Scan \/ ReturnSuccess \/ Except

Next == Invoke \/ lambda_handler \/ Complete

Spec == Init /\ [][Next]_vars

-----------------------------------------------------------------------------
(* Vocabulary of the properties.                                           *)

Returned == pc = "returned"
Parsed == json_loads(envelope.body)
NoRequestFailed == \A i \in 1..Len(replies) : replies[i].ok
SomeRequestFailed == \E i \in 1..Len(replies) : ~replies[i].ok

(* The records of all pages received, in order of arrival. *)
RECURSIVE ItemsOf(_)
ItemsOf(rs) == IF rs = <<>> THEN <<>> ELSE Head(rs).Items \o ItemsOf(Tail(rs))

ErrorKey == <<"e", "r", "r", "o", "r">>
IsRecordArray(v) == v.t = "L" /\ \A i \in 1..Len(v.items) : v.items[i].t = "M"
IsErrorObject(v) == v.t = "M" /\ v.keys = <<ErrorKey>> /\ v.items[1].t = "S"

(* C1: pagination completeness. When a non-empty table was read and no     *)
(* page request failed, the last page received carried no continuation     *)
(* token, every later request passed on the token of the page before it,   *)
(* and the body is a JSON array with as many records as the table has rows.*)
PaginationComplete ==
    (Returned /\ table # <<>> /\ NoRequestFailed) =>
        /\ replies[Len(replies)].LastEvaluatedKey = 0
        /\ \A i \in 2..Len(requests) :
               requests[i].ExclusiveStartKey = replies[i - 1].LastEvaluatedKey
        /\ Parsed.ok
        /\ Parsed.v.t = "L"
        /\ Len(Parsed.v.items) = Len(table)

(* C2: when no request to the store raised, the envelope has statusCode    *)
(* 200 and its body is the JSON array of the records read, in the order    *)
(* the store yielded them, for records of every documented value type.     *)
SuccessBodyIsRecordsRead ==
    (Returned /\ NoRequestFailed) =>
        /\ envelope.statusCode = 200
        /\ Parsed.ok
        /\ Parsed.v = List(ItemsOf(replies))

(* C3: no failure escapes lambda_handler, and an invocation in which a     *)
(* failure was raised returns statusCode 500 with the body the JSON object *)
(* {"error": <the failure's message>}.                                     *)
FailureBecomes500 ==
    /\ pc # "raised"
    /\ (Returned /\ exc # NoExc) =>
           /\ envelope.statusCode = 500
           /\ Parsed.ok
           /\ Parsed.v = Map(<<ErrorKey>>, <<Str(exc.msg)>>)

FirstPageFailureReturned ==
    /\ Returned
    /\ Len(replies) = 1
    /\ ~replies[1].ok
    /\ exc.kind = "EndpointConnectionError"
    /\ envelope.statusCode = 500

(* C4: when page 1 arrives with a continuation token and the request for   *)
(* page 2 fails, the invocation returns the 500 envelope, not a 200 with   *)
(* the records of page 1.                                                  *)
SecondPageFailureIs500 ==
    (/\ Returned
     /\ Len(replies) >= 1
     /\ replies[1].ok
     /\ replies[1].LastEvaluatedKey # 0
     /\ plan.at = 2) => envelope.statusCode = 500

(* C5: every returned envelope has exactly the two fixed headers. *)
FixedHeadersAlways ==
    Returned =>
        /\ DOMAIN envelope.headers = {"Content-Type", "Access-Control-Allow-Origin"}
        /\ envelope.headers["Content-Type"] = "application/json"
        /\ envelope.headers["Access-Control-Allow-Origin"] = "*"

FailureAfterSuccessReturned ==
    /\ Returned
    /\ envelope.statusCode = 500
    /\ \E h \in history : h.envelope.statusCode = 200

(* C6: the body of every returned envelope is valid JSON; statusCode is    *)
(* 200 exactly when it is an array of records and 500 exactly when it is   *)
(* an object with the single string field error; no other statusCode.      *)
BodyShapeMatchesStatus ==
    Returned =>
        /\ Parsed.ok
        /\ envelope.statusCode \in {200, 500}
        /\ envelope.statusCode = 200 <=> IsRecordArray(Parsed.v)
        /\ envelope.statusCode = 500 <=> IsErrorObject(Parsed.v)

EscapedRecordsReturned ==
    /\ Returned
    /\ envelope.statusCode = 200
    /\ Len(response.Items) >= 2
    /\ response.Items[1] = RecS
    /\ response.Items[2] = RecL

(* C7: an empty table read without failure gives statusCode 200 and the    *)
(* body "[]".                                                              *)
EmptyTableBody ==
    (Returned /\ table = <<>> /\ NoRequestFailed) =>
        /\ envelope.statusCode = 200
        /\ envelope.body = <<"[", "]">>

EmptyTableReturned ==
    /\ Returned
    /\ table = <<>>
    /\ Len(replies) = 1
    /\ replies[1].ok

(* C8: no step changes the table's contents, and every request issued      *)
(* against the table is a scan.                                            *)
TableReadOnly ==
    [][/\ table' = table
       /\ \A i \in 1..Len(requests') : requests'[i].op = "Scan"]_vars

SuccessAndFailureBehind ==
    /\ pc = "idle"
    /\ table # <<>>
    /\ \E h \in history : h.envelope.statusCode = 200
    /\ \E h \in history : h.envelope.statusCode = 500

(* C9: an invocation that receives the same replies as an earlier one      *)
(* returns the same envelope, whatever the two events and contexts and     *)
(* whatever ran in between.                                                *)
EnvelopeDependsOnRepliesOnly ==
    /\ Returned => \A h \in history : h.replies = replies => h.envelope = envelope
    /\ \A g, h \in history : g.replies = h.replies => g.envelope = h.envelope

SameRepliesOtherTrigger ==
    /\ Returned
    /\ Cardinality(history) >= 2
    /\ \E h \in history :
        /\ h.replies = replies
        /\ h.event # event
        /\ h.context # context
        /\ h.envelope.statusCode = 200

(* C10: after a request to the table has failed, the invocation issues no  *)
(* further request, and it returns statusCode 500 whatever the failure.    *)
NoRetryAfterFailure ==
    \A i \in 1..Len(replies) :
        ~replies[i].ok =>
            /\ Len(requests) = i
            /\ pc \in {"except", "returned"}
            /\ Returned => envelope.statusCode = 500

ThrottledOnceReturned ==
    /\ Returned
    /\ Len(requests) = 1
    /\ ~replies[1].ok
    /\ exc.kind = "ClientError"

====
